---- MODULE Spec2Model ----
(***************************************************************************)
(* Model of the chef resource controllers (controllers.py) over the        *)
(* relational entity graph declared in models.py.                          *)
(*                                                                         *)
(* The persisted store is one table per entity (a function from primary    *)
(* key to row) and one set of pairs per association table.  Every          *)
(* controller operation is one action; it is computed by an operator from  *)
(* the committed store to the committed store after the call, the outcome  *)
(* of the call and the value it returns.  A commit inside a nested         *)
(* controller call (the unit and ingredient upserts of a recipe write) is  *)
(* a commit of the whole session, and it is modelled as such.              *)
(***************************************************************************)
EXTENDS Integers, Sequences, FiniteSets, TLC

\* ------------------------------------------------------------------ bounds
MaxUnit == 2          \* unit primary keys are drawn from 1..MaxUnit
MaxTag == 2
MaxIngredient == 2
MaxItem == 2
MaxRecipe == 2
MaxCategory == 1
MaxLines == 2         \* longest ingredient list of a recipe payload
MaxPayloadTags == 1   \* longest tag list of a payload
MaxDepth == 3         \* largest depth passed to get_dictionary

\* ------------------------------------------------------- values and nulls
\* Python's None, for a numeric attribute and for a string attribute.
NoneNum == -1
NoneStr == "None"

UnitNames == {"g", "ml"}
GramsValues == {0, 5}
TagNames == {"vegan"}
IngredientNames == {"salt", "rice"}
Titles == {"Soup", "Stew"}
Amounts == {1, 2}
CategoryNames == {"main", "side"}

NumAttrs == {"id", "grams", "amount", "ingredient_id", "unit_id"}

NoneOf(attr) == IF attr \in NumAttrs THEN NoneNum ELSE NoneStr

\* ------------------------------------------------------------ the schema
\* Columns of each mapped class, besides the primary key Base.id.
Columns(kind) ==
    CASE kind = "unit" -> {"name", "grams"}
      [] kind = "tag" -> {"name"}
      [] kind = "ingredient" -> {"name"}
      [] kind = "item" -> {"ingredient_id", "unit_id", "amount"}
      [] kind = "category" -> {"name"}
      [] kind = "recipe" -> {"title"}

\* Column(..., default=...): the value an INSERT gives a column left at None.
ColumnDefault(kind, attr) ==
    CASE kind = "unit" /\ attr = "grams" -> 0
      [] kind = "item" /\ attr = "amount" -> 0
      [] OTHER -> NoneOf(attr)

\* Column(..., nullable=False)
NotNullColumns(kind) ==
    CASE kind = "unit" -> {"name"}
      [] kind = "tag" -> {"name"}
      [] kind = "ingredient" -> {"name"}
      [] kind = "category" -> {"name"}
      [] kind = "recipe" -> {"title"}
      [] OTHER -> {}

\* A wrong schema: Unit.name declared without unique=True.
UniqueColumnsNoConstraint(kind) == {}

\* Column(..., unique=True)
UniqueColumns(kind) == IF kind = "unit" THEN {"name"} ELSE {}

\* __items__: the attributes get_dictionary serializes.
Items(kind) ==
    CASE kind = "unit" -> {"name", "grams"}
      [] kind = "tag" -> {"name"}
      [] kind = "ingredient" -> {"id", "name"}
      [] kind = "item" -> {"ingredient", "amount", "unit", "note"}
      [] kind = "category" -> {"id", "name", "tags"}
      [] kind = "recipe" -> {"id", "title", "ingredients", "tags"}

\* ----------------------------------------------------------------- state
VARIABLES
    units,        \* table unit:            id -> [name, grams]
    tags,         \* table tag:             id -> [name]
    ingredients,  \* table ingredient:      id -> [name]
    items,        \* table ingredient_item: id -> [ingredient_id, unit_id, amount]
    recipes,      \* table recipe:          id -> [title]
    categories,   \* table category:        id -> [name]
    rec_items,    \* association table ingredients:   <<recipe_id, ingredient_item_id>>
    rec_tags,     \* association table tags:          <<recipe_id, tag_id>>
    cat_tags,     \* association table category_tags: <<category_id, tag_id>>
    last,         \* the most recent controller call: its arguments and its outcome
    pending       \* per session: the unit upsert that has looked up and not committed

store_vars == <<units, tags, ingredients, items, recipes, categories,
                rec_items, rec_tags, cat_tags>>
vars == <<units, tags, ingredients, items, recipes, categories,
          rec_items, rec_tags, cat_tags, last, pending>>

\* The committed store as one value.
Store ==
    [units |-> units, tags |-> tags, ingredients |-> ingredients, items |-> items,
     recipes |-> recipes, categories |-> categories,
     rec_items |-> rec_items, rec_tags |-> rec_tags, cat_tags |-> cat_tags]

EmptyTable == [i \in {} |-> NoneNum]

TableOf(kind) ==
    CASE kind = "unit" -> "units"
      [] kind = "tag" -> "tags"
      [] kind = "ingredient" -> "ingredients"
      [] kind = "item" -> "items"
      [] kind = "category" -> "categories"
      [] kind = "recipe" -> "recipes"

MaxKey(kind) ==
    CASE kind = "unit" -> MaxUnit
      [] kind = "tag" -> MaxTag
      [] kind = "ingredient" -> MaxIngredient
      [] kind = "item" -> MaxItem
      [] kind = "category" -> MaxCategory
      [] kind = "recipe" -> MaxRecipe

Kinds == {"unit", "tag", "ingredient", "item", "category", "recipe"}

\* The store fits the bounds of the model.
InBounds(s) == \A kind \in Kinds : DOMAIN s[TableOf(kind)] \subseteq 1..MaxKey(kind)

\* ------------------------------------------------------ table primitives
MaxOf(S) == CHOOSE m \in S : \A x \in S : x <= m

\* The primary key the database gives the next inserted row.
NextId(tbl) == IF DOMAIN tbl = {} THEN 1 ELSE MaxOf(DOMAIN tbl) + 1

Put(tbl, id, row) == [i \in DOMAIN tbl \cup {id} |-> IF i = id THEN row ELSE tbl[i]]

Del(tbl, id) == [i \in DOMAIN tbl \ {id} |-> tbl[i]]

\* session.get(orm_model, id): the mapped object, or None.
Exists(s, kind, id) == id \in DOMAIN s[TableOf(kind)]

\* A loaded object: its columns and its primary key.
Load(s, kind, id) ==
    [a \in Columns(kind) \cup {"id"} |->
        IF a = "id" THEN id ELSE s[TableOf(kind)][id][a]]

\* orm_model(): a transient object, every attribute None.
NewModel(kind) == [a \in Columns(kind) \cup {"id"} |-> NoneOf(a)]

\* Flush of one object of the given kind: INSERT when the object is transient
\* (old_id is None), UPDATE of row old_id otherwise.  The flush fails on a
\* primary key that is taken, a NULL in a NOT NULL column or a duplicate in a
\* unique column.
Flush(tbl, kind, old_id, obj) ==
    LET id == IF obj.id # NoneNum THEN obj.id ELSE NextId(tbl)
        row == [a \in Columns(kind) |->
                   IF old_id = NoneNum /\ obj[a] = NoneOf(a)
                   THEN ColumnDefault(kind, a) ELSE obj[a]]
        rest == IF old_id = NoneNum THEN tbl ELSE Del(tbl, old_id)
        bad == \/ id \in DOMAIN rest
               \/ \E a \in NotNullColumns(kind) : row[a] = NoneOf(a)
               \/ \E a \in UniqueColumns(kind) : \E j \in DOMAIN rest : rest[j][a] = row[a]
    IN  IF bad THEN [ok |-> FALSE, tbl |-> tbl, id |-> NoneNum]
        ELSE [ok |-> TRUE, tbl |-> Put(rest, id, row), id |-> id]

\* read_schema(**obj.dictionary): the attributes named by __items__, the
\* others left at the schema's default None.
ReadSchema(kind, obj) ==
    [a \in Columns(kind) \cup {"id"} |-> IF a \in Items(kind) THEN obj[a] ELSE NoneOf(a)]

\* The result of a controller call: the committed store after it, its
\* outcome ("ok" or the error raised), the value returned, the primary key
\* of the object the call wrote (item.id), and the parts of the error message.
Result(s, out, ret) ==
    [s |-> s, out |-> out, ret |-> ret, row |-> NoneNum, titles |-> <<>>, tag_id |-> NoneNum]

\* The result of a call that wrote the object row of the given kind.
Written(s, kind, row) ==
    [Result(s, "ok", ReadSchema(kind, Load(s, kind, row))) EXCEPT !.row = row]

NoRet == [none |-> TRUE]
NoData == [none |-> TRUE]

\* --------------------------------------------------- Controller (generic)
\* A default merge that also writes the attributes that are None in data.
FillModelOverwriteAll(model, data) == [a \in DOMAIN model |-> data[a]]

\* Controller._fill_model: setattr for every attribute of data that is not None.
FillModel(model, data) ==
    [a \in DOMAIN model |-> IF data[a] # NoneOf(a) THEN data[a] ELSE model[a]]

\* session.add(obj); session.commit() for an object of a kind without
\* relationships of its own (unit, tag, ingredient): the committed store, or
\* the failure of the flush.
CommitPlain(s, kind, old_id, obj) ==
    LET f == Flush(s[TableOf(kind)], kind, old_id, obj)
    IN  [ok |-> f.ok, id |-> f.id,
         s |-> IF f.ok THEN [s EXCEPT ![TableOf(kind)] = f.tbl] ELSE s]

\* Controller.get_single
GetSingle(s, kind, item_id) ==
    IF ~Exists(s, kind, item_id) THEN Result(s, "NotFound", NoRet)
    ELSE Result(s, "ok", ReadSchema(kind, Load(s, kind, item_id)))

\* Controller.create for TagController, IngredientsController, UnitsController.
CreatePlain(s, kind, data) ==
    LET c == CommitPlain(s, kind, NoneNum, FillModel(NewModel(kind), data))
    IN  IF ~c.ok THEN Result(s, "IntegrityError", NoRet)
        ELSE [GetSingle(c.s, kind, c.id) EXCEPT !.row = c.id]

\* Controller.update for TagController, IngredientsController, UnitsController.
UpdatePlain(s, kind, item_id, data) ==
    IF ~Exists(s, kind, item_id) THEN Result(s, "NotFound", NoRet)
    ELSE LET c == CommitPlain(s, kind, item_id, FillModel(Load(s, kind, item_id), data))
         IN  IF ~c.ok THEN Result(s, "IntegrityError", NoRet)
             ELSE [GetSingle(c.s, kind, c.id) EXCEPT !.row = c.id]

\* Controller.create_or_update for TagController and IngredientsController.
\* With an id that resolves to nothing, item is None and the first setattr of
\* _fill_model raises AttributeError (data.id itself is not None).
CreateOrUpdatePlain(s, kind, data) ==
    IF data.id # NoneNum /\ ~Exists(s, kind, data.id)
    THEN Result(s, "AttributeError", NoRet)
    ELSE LET old_id == data.id
             item == IF data.id # NoneNum THEN Load(s, kind, data.id) ELSE NewModel(kind)
             c == CommitPlain(s, kind, old_id, FillModel(item, data))
         IN  IF ~c.ok THEN Result(s, "IntegrityError", NoRet)
             ELSE Written(c.s, kind, c.id)

\* -------------------------------------------------------- UnitsController
\* query(Unit).filter_by(name=name).first(): the id of a unit of that name
\* (the one of the smallest id), or None.
FirstByName(s, name) ==
    LET same == {i \in DOMAIN s.units : s.units[i].name = name}
    IN  IF same = {} THEN NoneNum ELSE CHOOSE i \in same : \A j \in same : i <= j

\* An upsert that never looks the name up.
UnitLookupNever(s, data) == data.id

\* UnitsController.create_or_update, the choice of item: by id when data has
\* one, else by name.  The result is the id of the unit chosen, None for a
\* new unit.
UnitLookup(s, data) ==
    IF data.id # NoneNum THEN data.id ELSE FirstByName(s, data.name)

\* UnitsController.create_or_update, lines 142-151, for the unit old_id that
\* the choice of item gave: the attributes of data but id are set, None
\* among them, the session commits and the unit of that name is read back.
UnitWrite(s, data, old_id) ==
    IF old_id # NoneNum /\ ~Exists(s, "unit", old_id)
    THEN Result(s, "AttributeError", NoRet)
    ELSE LET item == IF old_id # NoneNum THEN Load(s, "unit", old_id)
                     ELSE NewModel("unit")
             filled == [a \in DOMAIN item |-> IF a = "id" THEN item[a] ELSE data[a]]
             c == CommitPlain(s, "unit", old_id, filled)
         IN  IF ~c.ok THEN Result(s, "IntegrityError", NoRet)
             ELSE [Written(c.s, "unit", FirstByName(c.s, filled.name)) EXCEPT !.row = c.id]

\* UnitsController.create_or_update
UnitCreateOrUpdate(s, data) == UnitWrite(s, data, UnitLookup(s, data))

\* Controller.delete_single for units: no relationship refers to a unit.
UnitDelete(s, item_id) ==
    IF ~Exists(s, "unit", item_id) THEN Result(s, "NotFound", NoRet)
    ELSE Result([s EXCEPT !.units = Del(s.units, item_id)], "ok", NoRet)

\* Controller.delete_single for tags: the association rows of both
\* many-to-many relationships of the tag go with it.
TagDelete(s, item_id) ==
    IF ~Exists(s, "tag", item_id) THEN Result(s, "NotFound", NoRet)
    ELSE Result([s EXCEPT !.tags = Del(s.tags, item_id),
                          !.rec_tags = {p \in s.rec_tags : p[2] # item_id},
                          !.cat_tags = {p \in s.cat_tags : p[2] # item_id}],
                "ok", NoRet)

\* -------------------------------------------------- IngredientsController
\* The elements of a finite set of integers in increasing order.
RECURSIVE SortedSeq(_)
SortedSeq(S) ==
    IF S = {} THEN <<>>
    ELSE LET m == CHOOSE x \in S : \A y \in S : x <= y
         IN  <<m>> \o SortedSeq(S \ {m})

\* ingredient.ingredients_items: the ingredient-items that refer to the
\* ingredient.
IngredientsItems(s, ingredient_id) ==
    {i \in DOMAIN s.items : s.items[i].ingredient_id = ingredient_id}

\* item.recipes (backref of Recipe.ingredients): the recipes the item is
\* attached to.
ItemRecipes(s, item_id) == {r \in DOMAIN s.recipes : <<r, item_id>> \in s.rec_items}

RECURSIVE RecipeTitles(_, _)
RecipeTitles(s, recipe_seq) ==
    IF recipe_seq = <<>> THEN <<>>
    ELSE <<s.recipes[Head(recipe_seq)].title>> \o RecipeTitles(s, Tail(recipe_seq))

\* [r.title for item in ingredient.ingredients_items for r in item.recipes]
RECURSIVE TitlesOf(_, _)
TitlesOf(s, item_seq) ==
    IF item_seq = <<>> THEN <<>>
    ELSE RecipeTitles(s, SortedSeq(ItemRecipes(s, Head(item_seq))))
         \o TitlesOf(s, Tail(item_seq))

AttachedTitles(s, ingredient_id) ==
    TitlesOf(s, SortedSeq(IngredientsItems(s, ingredient_id)))

\* Controller.delete_single for ingredients: the row is deleted and the
\* ingredient-items of its collection lose their reference.
IngredientDeleteRow(s, item_id) ==
    [s EXCEPT !.ingredients = Del(s.ingredients, item_id),
              !.items = [i \in DOMAIN s.items |->
                            IF s.items[i].ingredient_id = item_id
                            THEN [s.items[i] EXCEPT !.ingredient_id = NoneNum]
                            ELSE s.items[i]]]

\* A guard that never finds the ingredient attached.
GuardTitlesNone(s, item_id) == <<>>

\* IngredientsController.delete_single, lines 98-108: the titles the guard
\* collects.
GuardTitles(s, item_id) == AttachedTitles(s, item_id)

\* IngredientsController.delete_single.  session.get returns None for an id
\* that is not in the store, and None.ingredients_items raises AttributeError.
IngredientDelete(s, item_id) ==
    IF ~Exists(s, "ingredient", item_id) THEN Result(s, "AttributeError", NoRet)
    ELSE LET titles == GuardTitles(s, item_id)
         IN  IF titles # <<>>
             THEN [Result(s, "Conflict", NoRet) EXCEPT !.titles = titles]
             ELSE Result(IngredientDeleteRow(s, item_id), "ok", NoRet)

\* ------------------------------------------------------ RecipesController
\* The ingredient-items attached to the recipe.
RecipeIngredientSet(s, recipe_id) ==
    {i \in DOMAIN s.items : <<recipe_id, i>> \in s.rec_items}

\* recipe.ingredients as loaded from the store: the attached ingredient-items,
\* in the order of the association table's primary key.
RecipeIngredients(s, recipe_id) == SortedSeq(RecipeIngredientSet(s, recipe_id))

\* recipe.tags as loaded from the store.
RecipeTags(s, recipe_id) == {g \in DOMAIN s.tags : <<recipe_id, g>> \in s.rec_tags}

\* A resolution of the lines in one transaction: on a failure the committed
\* store is the one before the first upsert.
RECURSIVE ResolveLinesAtomic(_, _, _, _)
ResolveLinesAtomic(w, c, lines, built) ==
    IF lines = <<>> THEN [out |-> "ok", c |-> w, built |-> built]
    ELSE LET line == Head(lines)
             u == UnitCreateOrUpdate(w, line.unit)
         IN  IF u.out # "ok" THEN [out |-> u.out, c |-> c, built |-> built]
             ELSE LET i == CreateOrUpdatePlain(u.s, "ingredient", line.ingredient)
                  IN  IF i.out # "ok" THEN [out |-> i.out, c |-> c, built |-> built]
                      ELSE ResolveLinesAtomic(i.s, c, Tail(lines),
                               Append(built, [id |-> NoneNum, amount |-> line.amount,
                                              unit_id |-> u.ret.id,
                                              ingredient_id |-> i.ret.id]))

\* _get_ingredients_and_tags, lines 162-170.  Each upsert commits the
\* session.  The result is the committed store c, the outcome, and the line
\* items built so far; on a failure c is the store of the last commit.
RECURSIVE ResolveLines(_, _, _, _)
ResolveLines(w, c, lines, built) ==
    IF lines = <<>> THEN [out |-> "ok", c |-> w, built |-> built]
    ELSE LET line == Head(lines)
             u == UnitCreateOrUpdate(w, line.unit)
         IN  IF u.out # "ok" THEN [out |-> u.out, c |-> c, built |-> built]
             ELSE LET i == CreateOrUpdatePlain(u.s, "ingredient", line.ingredient)
                  IN  IF i.out # "ok" THEN [out |-> i.out, c |-> u.s, built |-> built]
                      ELSE ResolveLines(i.s, i.s, Tail(lines),
                               Append(built, [id |-> NoneNum, amount |-> line.amount,
                                              unit_id |-> u.ret.id,
                                              ingredient_id |-> i.ret.id]))

\* The flush of a list of new objects of one kind, in order: the table and
\* the primary keys given.
RECURSIVE FlushAll(_, _, _, _)
FlushAll(tbl, kind, objs, ids) ==
    IF objs = <<>> THEN [ok |-> TRUE, tbl |-> tbl, ids |-> ids]
    ELSE LET f == Flush(tbl, kind, NoneNum, Head(objs))
         IN  IF ~f.ok THEN [ok |-> FALSE, tbl |-> tbl, ids |-> ids]
             ELSE FlushAll(f.tbl, kind, Tail(objs), Append(ids, f.id))

SeqRange(q) == {q[k] : k \in 1..Len(q)}

SelectNew(tag_seq) == SelectSeq(tag_seq, LAMBDA g : g.id = NoneNum)

\* _get_ingredients_and_tags, lines 172-179, over the store w: the ids of the
\* payload tags that carry one, None among them for an id that resolves to
\* nothing, and the new Tag objects of the others.
ResolveTags(w, tag_seq) ==
    [given |-> {IF Exists(w, "tag", g.id) THEN g.id ELSE NoneNum :
                    g \in {h \in SeqRange(tag_seq) : h.id # NoneNum}},
     fresh |-> SelectNew(tag_seq)]

\* A merge that appends the new line items and tags to the ones attached.
ReplaceLinksAppend(links, recipe_id, new_ids) ==
    links \cup {<<recipe_id, n>> : n \in new_ids}

\* model.ingredients = ...; model.tags = ...: the rows of an association
\* table after the collection of recipe_id is assigned.
ReplaceLinks(links, recipe_id, new_ids) ==
    {p \in links : p[1] # recipe_id} \cup {<<recipe_id, n>> : n \in new_ids}

\* A relationship that deletes the objects taken out of its collection.
OrphansDeletedAll(kind, old_ids, new_ids) == old_ids \ new_ids

\* The rows deleted because an assignment took them out of a collection of
\* the recipe.  Recipe.ingredients has cascade="all", which does not include
\* delete-orphan, and Recipe.tags has no cascade: none.
OrphansDeleted(kind, old_ids, new_ids) == {}

\* The scalar part of a recipe payload.
RecipeScalars(data) == [a \in Columns("recipe") \cup {"id"} |-> data[a]]

\* session.commit() at the end of create or update, when every flush has
\* succeeded: the store w of the last upsert with the recipe row, the new
\* ingredient-items and tags, and both collections of the recipe replaced.
RecipeCommit(w, fr, fi, ft, new_tags, no_items, no_tags) ==
    Written([w EXCEPT
               !.recipes = fr.tbl,
               !.items = [i \in DOMAIN fi.tbl \ no_items |-> fi.tbl[i]],
               !.tags = [g \in DOMAIN ft.tbl \ no_tags |-> ft.tbl[g]],
               !.rec_items = {p \in ReplaceLinks(w.rec_items, fr.id, SeqRange(fi.ids)) :
                                 p[2] \notin no_items},
               !.rec_tags = {p \in ReplaceLinks(w.rec_tags, fr.id, new_tags) :
                                p[2] \notin no_tags},
               !.cat_tags = {p \in w.cat_tags : p[2] \notin no_tags}],
            "recipe", fr.id)

\* model.ingredients = updated_ingredients; model.tags = updated_tags, and
\* the flush of the commit: of the recipe (fr), of the new ingredient-items
\* (fi) and of the new tags (ft).  c is the store of the last commit, which
\* stays when the flush fails; given are the payload's tag ids as resolved.
RecipeAssign(c, w, given, fr, fi, ft) ==
    IF ~(fr.ok /\ fi.ok /\ ft.ok) THEN Result(c, "IntegrityError", NoRet)
    ELSE IF NoneNum \in given THEN Result(c, "FlushError", NoRet)
    ELSE RecipeCommit(w, fr, fi, ft, given \cup SeqRange(ft.ids),
             OrphansDeleted("item", RecipeIngredientSet(w, fr.id), SeqRange(fi.ids)),
             OrphansDeleted("tag", RecipeTags(w, fr.id), given \cup SeqRange(ft.ids)))

\* _fill_model after the upserts of the ingredient-items: r is their result.
\* The store of the last commit is s itself when no upsert ran.
RecipeResolved(s, old_id, data, filled, r) ==
    IF r.out # "ok" THEN Result(r.c, r.out, NoRet)
    ELSE RecipeAssign(IF data.ingredients = <<>> THEN s ELSE r.c, r.c,
             ResolveTags(r.c, data.tags).given,
             IF old_id = NoneNum THEN Flush(r.c.recipes, "recipe", NoneNum, filled)
             ELSE [ok |-> TRUE, tbl |-> r.c.recipes, id |-> filled.id],
             FlushAll(r.c.items, "item", r.built, <<>>),
             FlushAll(r.c.tags, "tag", ResolveTags(r.c, data.tags).fresh, <<>>))

\* _fill_model from the scalar attributes on: filled is the recipe with the
\* scalar attributes of data, dirty the flush of it.  The scalar attributes
\* of a recipe of the session are written with the first commit that
\* follows, which is the commit of the first upsert.
RecipeFilled(s, old_id, data, filled, dirty) ==
    IF ~dirty.ok THEN Result(s, "IntegrityError", NoRet)
    ELSE RecipeResolved(s, old_id, data, filled,
             ResolveLines([s EXCEPT !.recipes = dirty.tbl], s, data.ingredients, <<>>))

\* RecipesController._fill_model followed by session.add and session.commit,
\* for the recipe model (the new recipe of create when old_id is None).
RecipeFill(s, old_id, data, filled) ==
    RecipeFilled(s, old_id, data, filled,
        IF old_id = NoneNum THEN [ok |-> TRUE, tbl |-> s.recipes, id |-> NoneNum]
        ELSE Flush(s.recipes, "recipe", old_id, filled))

RecipeWrite(s, old_id, data) ==
    RecipeFill(s, old_id, data,
        FillModel(IF old_id = NoneNum THEN NewModel("recipe") ELSE Load(s, "recipe", old_id),
                  RecipeScalars(data)))

\* Controller.create for recipes
RecipeCreate(s, data) == RecipeWrite(s, NoneNum, data)

\* An update that creates the recipe when the id is not in the store.
RecipeUpdateUpsert(s, item_id, data) ==
    RecipeWrite(s, IF Exists(s, "recipe", item_id) THEN item_id ELSE NoneNum, data)

\* Controller.update for recipes
RecipeUpdate(s, item_id, data) ==
    IF ~Exists(s, "recipe", item_id) THEN Result(s, "NotFound", NoRet)
    ELSE RecipeWrite(s, item_id, data)

\* An upsert that is not disabled: Controller.create_or_update.
RecipeCreateOrUpdateInherited(s, data) ==
    IF data.id = NoneNum THEN RecipeWrite(s, NoneNum, data)
    ELSE IF ~Exists(s, "recipe", data.id) THEN Result(s, "NotFound", NoRet)
    ELSE RecipeWrite(s, data.id, data)

\* RecipesController.create_or_update
RecipeCreateOrUpdate(s, data) == Result(s, "ValueError", NoRet)

\* cascade="all" on Recipe.ingredients: session.delete(recipe) deletes the
\* ingredient-items of its collection.
CascadeDelete(s, recipe_id) == RecipeIngredientSet(s, recipe_id)

\* Controller.delete_single for recipes
RecipeDelete(s, item_id) ==
    IF ~Exists(s, "recipe", item_id) THEN Result(s, "NotFound", NoRet)
    ELSE LET gone == CascadeDelete(s, item_id)
         IN  Result([s EXCEPT
                       !.recipes = Del(s.recipes, item_id),
                       !.items = [i \in DOMAIN s.items \ gone |-> s.items[i]],
                       !.rec_items = {p \in s.rec_items : p[1] # item_id /\ p[2] \notin gone},
                       !.rec_tags = {p \in s.rec_tags : p[1] # item_id}],
                    "ok", NoRet)

\* --------------------------------------------------- CategoriesController
\* CategoriesController._fill_model, lines 115-122: the id of the first
\* payload tag that session.get does not find, None when every tag resolves.
RECURSIVE FirstMissingTag(_, _)
FirstMissingTag(s, tag_seq) ==
    IF tag_seq = <<>> THEN [missing |-> FALSE, id |-> NoneNum]
    ELSE IF ~Exists(s, "tag", Head(tag_seq).id) THEN [missing |-> TRUE, id |-> Head(tag_seq).id]
    ELSE FirstMissingTag(s, Tail(tag_seq))

\* The scalar part of a category payload.
CategoryScalars(data) == [a \in Columns("category") \cup {"id"} |-> data[a]]

\* A merge that writes and commits the scalar attributes before it looks at
\* the tags.
CategoryWriteCommitFirst(s, old_id, has_model, data) ==
    IF ~has_model THEN Result(s, "AttributeError", NoRet)
    ELSE
    LET model == IF old_id = NoneNum THEN NewModel("category")
                 ELSE Load(s, "category", old_id)
        f == Flush(s.categories, "category", old_id, FillModel(model, CategoryScalars(data)))
        m == FirstMissingTag(s, data.tags)
    IN  IF ~f.ok THEN Result(s, "IntegrityError", NoRet)
        ELSE IF m.missing
        THEN [Result([s EXCEPT !.categories = f.tbl], "BadTag", NoRet) EXCEPT !.tag_id = m.id]
        ELSE LET s2 == [s EXCEPT !.categories = f.tbl,
                                 !.cat_tags = ReplaceLinks(s.cat_tags, f.id,
                                                 {g.id : g \in SeqRange(data.tags)})]
             IN  Written(s2, "category", f.id)

\* CategoriesController._fill_model followed by session.add and
\* session.commit, for the category old_id (None for a new category);
\* has_model is false when the caller passes None as the model.
CategoryWrite(s, old_id, has_model, data) ==
    LET m == FirstMissingTag(s, data.tags)
    IN  IF m.missing THEN [Result(s, "BadTag", NoRet) EXCEPT !.tag_id = m.id]
        ELSE IF ~has_model THEN Result(s, "AttributeError", NoRet)
        ELSE
        LET model == IF old_id = NoneNum THEN NewModel("category")
                     ELSE Load(s, "category", old_id)
            f == Flush(s.categories, "category", old_id, FillModel(model, CategoryScalars(data)))
        IN  IF ~f.ok THEN Result(s, "IntegrityError", NoRet)
            ELSE LET s2 == [s EXCEPT !.categories = f.tbl,
                                     !.cat_tags = ReplaceLinks(s.cat_tags, f.id,
                                                     {g.id : g \in SeqRange(data.tags)})]
                 IN  Written(s2, "category", f.id)

\* Controller.create for categories
CategoryCreate(s, data) == CategoryWrite(s, NoneNum, TRUE, data)

\* Controller.update for categories
CategoryUpdate(s, item_id, data) ==
    IF ~Exists(s, "category", item_id) THEN Result(s, "NotFound", NoRet)
    ELSE CategoryWrite(s, item_id, TRUE, data)

\* Controller.create_or_update for categories
CategoryCreateOrUpdate(s, data) ==
    IF data.id = NoneNum THEN CategoryWrite(s, NoneNum, TRUE, data)
    ELSE CategoryWrite(s, data.id, Exists(s, "category", data.id), data)

\* Controller.delete_single for categories
CategoryDelete(s, item_id) ==
    IF ~Exists(s, "category", item_id) THEN Result(s, "NotFound", NoRet)
    ELSE Result([s EXCEPT !.categories = Del(s.categories, item_id),
                          !.cat_tags = {p \in s.cat_tags : p[1] # item_id}],
                "ok", NoRet)

\* ------------------------------------------------- serialization (models)
\* get_dictionary(self, depth=99, ...): the default depth.
DefaultDepth == 99

\* The value of an attribute: None, a number, a string, a mapped object, or
\* a list of mapped objects of one kind.
VNone == [t |-> "none"]
VNum(n) == IF n = NoneNum THEN VNone ELSE [t |-> "num", n |-> n]
VStr(v) == IF v = NoneStr THEN VNone ELSE [t |-> "str", v |-> v]
VObj(s, kind, id) ==
    IF Exists(s, kind, id) THEN [t |-> "obj", kind |-> kind, id |-> id] ELSE VNone
VList(kind, ids) == [t |-> "list", kind |-> kind, ids |-> ids]

\* self.__getattribute__(attr) for an attribute of __items__.
Attr(s, kind, id, a) ==
    CASE a = "id" -> VNum(id)
      [] a \in {"name", "title"} -> VStr(s[TableOf(kind)][id][a])
      [] a \in {"grams", "amount"} -> VNum(s[TableOf(kind)][id][a])
      [] a = "ingredient" -> VObj(s, "ingredient", s.items[id].ingredient_id)
      [] a = "unit" -> VObj(s, "unit", s.items[id].unit_id)
      [] a = "ingredients" -> VList("item", RecipeIngredients(s, id))
      [] a = "tags" /\ kind = "recipe" -> VList("tag", SortedSeq(RecipeTags(s, id)))
      [] a = "tags" /\ kind = "category" ->
             VList("tag", SortedSeq({g \in DOMAIN s.tags : <<id, g>> \in s.cat_tags}))
      [] OTHER -> VNone

\* An exception raised while a value is serialized.
Raise == [val |-> [t |-> "raise"], visits |-> {}]

AsMap(m) == [t |-> "map", m |-> m]
AsList(l) == [t |-> "list", l |-> l]

\* The serializations of several values put together as a mapping or as a
\* list: an exception in one of them is the outcome of the whole.
Gather(parts, as) ==
    IF \E k \in DOMAIN parts : parts[k].val.t = "raise"
    THEN [val |-> [t |-> "raise"], visits |-> UNION {parts[k].visits : k \in DOMAIN parts}]
    ELSE [val |-> IF as = "map" THEN AsMap([k \in DOMAIN parts |-> parts[k].val])
                  ELSE AsList([k \in DOMAIN parts |-> parts[k].val]),
          visits |-> UNION {parts[k].visits : k \in DOMAIN parts}]

\* A list serialized at any depth as display strings.
ListDepthNever(depth) == FALSE

\* _dictify, line 29: a list is serialized element by element when depth > 1.
ListDepth(depth) == depth > 1

\* A display string that takes the depth 0 for the dictionary it shows.
ReprDepthZero(kind) == 0

\* Base.__repr__: the depth of the get_dictionary() call whose result the
\* display string shows.
ReprDepth(kind) == DefaultDepth

RECURSIVE Dictify(_, _, _, _)
RECURSIVE GetDictionary(_, _, _, _, _)
RECURSIVE Str(_, _, _, _)

\* _dictify(obj, depth) for the attribute value x of an object at the given
\* level below the root.  The result is the value serialized and the set of
\* <<kind, id, level>> of the objects on which get_dictionary ran.
Dictify(s, x, depth, level) ==
    CASE x.t = "none" -> [val |-> [t |-> "none"], visits |-> {}]
      [] x.t = "obj" /\ depth > 0 -> GetDictionary(s, x.kind, x.id, depth - 1, level + 1)
      [] x.t = "obj" /\ depth <= 0 -> Str(s, x.kind, x.id, level + 1)
      [] x.t = "list" /\ ListDepth(depth) ->
             Gather([k \in 1..Len(x.ids) |->
                        Dictify(s, VObj(s, x.kind, x.ids[k]), depth - 1, level)], "list")
      [] x.t = "list" /\ ~ListDepth(depth) ->
             Gather([k \in 1..Len(x.ids) |-> Str(s, x.kind, x.ids[k], level + 1)], "list")
      [] x.t = "num" -> [val |-> [t |-> "float", n |-> x.n], visits |-> {}]
      [] x.t = "str" -> [val |-> [t |-> "str", cls |-> "str", kw |-> x.v], visits |-> {}]

\* Base.get_dictionary(depth) of the object id of the given kind.
GetDictionary(s, kind, id, depth, level) ==
    LET r == Gather([a \in Items(kind) |-> Dictify(s, Attr(s, kind, id, a), depth, level)],
                    "map")
    IN  [val |-> r.val, visits |-> r.visits \cup {<<kind, id, level>>}]

\* str(obj) of a mapped object: Ingredient.__repr__ shows id and name,
\* IngredientItem.__repr__ the name of its ingredient, its amount and its
\* unit, and Base.__repr__ the dictionary of get_dictionary().
Str(s, kind, id, level) ==
    CASE kind = "ingredient" ->
             [val |-> [t |-> "str", cls |-> kind,
                       kw |-> [id |-> id, name |-> s.ingredients[id].name]],
              visits |-> {}]
      [] kind = "item" /\ ~Exists(s, "ingredient", s.items[id].ingredient_id) -> Raise
      [] kind = "item" /\ Exists(s, "ingredient", s.items[id].ingredient_id) ->
             LET unit == IF Exists(s, "unit", s.items[id].unit_id)
                         THEN Str(s, "unit", s.items[id].unit_id, level + 1)
                         ELSE [val |-> [t |-> "none"], visits |-> {}]
             IN  [val |-> [t |-> "str", cls |-> kind,
                           kw |-> [ingredient |-> s.ingredients[s.items[id].ingredient_id].name,
                                   amount |-> s.items[id].amount,
                                   unit |-> unit.val]],
                  visits |-> unit.visits]
      [] OTHER ->
             LET d == GetDictionary(s, kind, id, ReprDepth(kind), level)
             IN  [val |-> IF d.val.t = "raise" THEN d.val
                          ELSE [t |-> "str", cls |-> kind, kw |-> d.val.m],
                  visits |-> d.visits]

\* ---------------------------------------------------------------- inputs
OptId(max) == {NoneNum} \cup 1..max

\* schemas.Unit
UnitData == [id : OptId(MaxUnit), name : UnitNames \cup {NoneStr},
             grams : GramsValues \cup {NoneNum}]

\* schemas.Tag
TagData == [id : OptId(MaxTag), name : TagNames \cup {NoneStr}]

\* schemas.UpdateIngredient
IngredientData == [id : OptId(MaxIngredient), name : IngredientNames \cup {NoneStr}]

\* schemas.IngredientItem
Line(amount, unit, ingredient_id, ingredient_name) ==
    [amount |-> amount, unit |-> unit,
     ingredient |-> [id |-> ingredient_id, name |-> ingredient_name]]

UnitOf(id, name, grams) == [id |-> id, name |-> name, grams |-> grams]

\* The ingredient-items of the recipe payloads: the unit is named; the
\* ingredient is new, or the ingredient 1.
LineData ==
    {Line(1, UnitOf(NoneNum, "g", 0), NoneNum, "salt"),
     Line(2, UnitOf(NoneNum, "g", 0), 1, "salt")}

\* The ingredient-items of the payloads that exercise the unit upsert: a
\* unit by name, a unit by id, each with a new ingredient.
UnitLineData ==
    {Line(1, UnitOf(NoneNum, "g", NoneNum), NoneNum, "salt"),
     Line(1, UnitOf(NoneNum, "ml", 5), NoneNum, "salt"),
     Line(1, UnitOf(1, "ml", 0), NoneNum, "salt"),
     Line(1, UnitOf(2, "g", 0), NoneNum, "salt")}

\* The sequences over S of at most n elements.
SeqUpTo(S, n) == UNION {[1..k -> S] : k \in 0..n}

\* A payload names a tag at most once.
DistinctIds(tag_seq) ==
    \A j, k \in 1..Len(tag_seq) :
        j # k /\ tag_seq[j].id # NoneNum => tag_seq[j].id # tag_seq[k].id

TagLists(T) == {q \in SeqUpTo(T, MaxPayloadTags) : DistinctIds(q)}

\* The tags of the recipe payloads: a new tag, or a tag by id.
RecipeTagLists == TagLists({d \in TagData : d.name # NoneStr})

\* schemas.CreateOrUpdateRecipe, for a call that addresses the recipe item_id
\* (None for create): the payload carries that id.
RecipeDataOf(item_id, title_set, line_lists, tag_lists) ==
    [id : {item_id}, title : title_set, ingredients : line_lists, tags : tag_lists]

\* The payloads of the recipe writes with ingredient-items and tags: the
\* lines differ from each other, a tag is new or the tag 1.
RecipeData(item_id) ==
    RecipeDataOf(item_id, {"Soup"},
                 {q \in SeqUpTo(LineData, MaxLines) :
                     \A j, k \in 1..Len(q) : j # k => q[j] # q[k]},
                 TagLists({d \in TagData : d.name # NoneStr /\ d.id \in {NoneNum, 1}}))

LinesOnlyData(item_id) ==
    RecipeDataOf(item_id, Titles, SeqUpTo(LineData, MaxLines), {<<>>})

TagsOnlyData(item_id) == RecipeDataOf(item_id, Titles, {<<>>}, RecipeTagLists)

UnitLinesData(item_id) ==
    RecipeDataOf(item_id, {"Soup"}, [1..1 -> UnitLineData], {<<>>})

\* The ingredient-items of the payloads of the writes that fail part way: a
\* unit by name with a new ingredient, and a unit by name with the
\* ingredient 2, which fails while no ingredient has that id.
PartialLineData ==
    {Line(1, UnitOf(NoneNum, "g", 5), NoneNum, "salt"),
     Line(2, UnitOf(NoneNum, "g", 0), NoneNum, "rice"),
     Line(2, UnitOf(NoneNum, "ml", 5), 2, "rice")}

\* Their tags: none, or the tag 2, which no call creates.
PartialData(item_id) ==
    RecipeDataOf(item_id, {"Soup"}, SeqUpTo(PartialLineData, MaxLines),
                 {<<>>, <<[id |-> 2, name |-> "vegan"]>>})

\* schemas.CreateOrUpdateCategory
CategoryData(ids) ==
    [id : ids, name : CategoryNames \cup {NoneStr},
     tags : TagLists({d \in TagData : d.id # NoneNum /\ d.name # NoneStr})]

\* The payloads of an update call that addresses item_id.  A unit payload
\* carries any id; a tag or ingredient payload carries no id or item_id.
UpdateData(kind, item_id) ==
    CASE kind = "unit" -> UnitData
      [] kind = "tag" -> {d \in TagData : d.id \in {NoneNum, item_id}}
      [] kind = "ingredient" -> {d \in IngredientData : d.id \in {NoneNum, item_id}}

\* --------------------------------------------------------------- actions
Commit(s) ==
    /\ units' = s.units
    /\ tags' = s.tags
    /\ ingredients' = s.ingredients
    /\ items' = s.items
    /\ recipes' = s.recipes
    /\ categories' = s.categories
    /\ rec_items' = s.rec_items
    /\ rec_tags' = s.rec_tags
    /\ cat_tags' = s.cat_tags

\* The ingredient-items and the tags that a successful update of the recipe
\* item_id took out of its collections.
Detached(s, r, ctrl, op, item_id) ==
    IF ctrl = "recipes" /\ op = "update" /\ r.out = "ok"
    THEN [items |-> {i \in DOMAIN s.items : <<item_id, i>> \in s.rec_items /\
                                            <<r.row, i>> \notin r.s.rec_items},
          tags |-> {g \in DOMAIN s.tags : <<item_id, g>> \in s.rec_tags /\
                                          <<r.row, g>> \notin r.s.rec_tags}]
    ELSE [items |-> {}, tags |-> {}]

\* One controller call: the store after it and the record of the call.
Call(ctrl, op, item_id, data, result) ==
    \E r \in {result} :
        /\ InBounds(r.s)
        /\ Commit(r.s)
        /\ last' = [ctrl |-> ctrl, op |-> op, id |-> item_id, data |-> data,
                    out |-> r.out, ret |-> r.ret, row |-> r.row,
                    titles |-> r.titles, tag_id |-> r.tag_id,
                    detached |-> Detached(Store, r, ctrl, op, item_id)]
        /\ pending' = pending

NoCall == [ctrl |-> "none", op |-> "none", id |-> NoneNum, data |-> NoData,
           out |-> "none", ret |-> NoRet, row |-> NoneNum,
           titles |-> <<>>, tag_id |-> NoneNum,
           detached |-> [items |-> {}, tags |-> {}]]

\* The sessions (transactions) that run unit upserts side by side, and the
\* state of one that runs none.
Sessions == {"a", "b"}
Idle == [pc |-> "idle", data |-> NoData, item |-> NoneNum]

\* The empty store, before any call.
Init ==
    /\ units = EmptyTable
    /\ tags = EmptyTable
    /\ ingredients = EmptyTable
    /\ items = EmptyTable
    /\ recipes = EmptyTable
    /\ categories = EmptyTable
    /\ rec_items = {}
    /\ rec_tags = {}
    /\ cat_tags = {}
    /\ last = NoCall
    /\ pending = [p \in Sessions |-> Idle]

\* ---- UnitsController
UnitsCreate ==
    \E data \in {d \in UnitData : d.id = NoneNum} :
        Call("units", "create", NoneNum, data, CreatePlain(Store, "unit", data))

UnitsUpdate ==
    \E item_id \in 1..MaxUnit :
        \E data \in UpdateData("unit", item_id) :
            Call("units", "update", item_id, data, UpdatePlain(Store, "unit", item_id, data))

UnitsCreateOrUpdate ==
    \E data \in UnitData :
        Call("units", "create_or_update", NoneNum, data, UnitCreateOrUpdate(Store, data))

UnitsDeleteSingle ==
    \E item_id \in 1..MaxUnit :
        Call("units", "delete_single", item_id, NoData, UnitDelete(Store, item_id))

\* ---- TagController
TagsCreate ==
    \E data \in {d \in TagData : d.id = NoneNum} :
        Call("tags", "create", NoneNum, data, CreatePlain(Store, "tag", data))

TagsUpdate ==
    \E item_id \in 1..MaxTag :
        \E data \in UpdateData("tag", item_id) :
            Call("tags", "update", item_id, data, UpdatePlain(Store, "tag", item_id, data))

TagsCreateOrUpdate ==
    \E data \in TagData :
        Call("tags", "create_or_update", NoneNum, data, CreateOrUpdatePlain(Store, "tag", data))

TagsDeleteSingle ==
    \E item_id \in 1..MaxTag :
        Call("tags", "delete_single", item_id, NoData, TagDelete(Store, item_id))

\* ---- IngredientsController
IngredientsCreate ==
    \E data \in {d \in IngredientData : d.id = NoneNum} :
        Call("ingredients", "create", NoneNum, data, CreatePlain(Store, "ingredient", data))

IngredientsUpdate ==
    \E item_id \in 1..MaxIngredient :
        \E data \in UpdateData("ingredient", item_id) :
            Call("ingredients", "update", item_id, data,
                 UpdatePlain(Store, "ingredient", item_id, data))

IngredientsCreateOrUpdate ==
    \E data \in IngredientData :
        Call("ingredients", "create_or_update", NoneNum, data,
             CreateOrUpdatePlain(Store, "ingredient", data))

IngredientsDeleteSingle ==
    \E item_id \in 1..MaxIngredient :
        Call("ingredients", "delete_single", item_id, NoData, IngredientDelete(Store, item_id))

\* ---- CategoriesController
CategoriesCreate ==
    \E data \in CategoryData({NoneNum}) :
        Call("categories", "create", NoneNum, data, CategoryCreate(Store, data))

CategoriesUpdate ==
    \E item_id \in 1..MaxCategory :
        \E data \in CategoryData({NoneNum, item_id}) :
            Call("categories", "update", item_id, data, CategoryUpdate(Store, item_id, data))

CategoriesCreateOrUpdate ==
    \E data \in CategoryData(OptId(MaxCategory)) :
        Call("categories", "create_or_update", NoneNum, data, CategoryCreateOrUpdate(Store, data))

CategoriesDeleteSingle ==
    \E item_id \in 1..MaxCategory :
        Call("categories", "delete_single", item_id, NoData, CategoryDelete(Store, item_id))

\* ---- RecipesController.  A recipe call is recorded with the id of its
\* payload.
RecipesCreateFrom(D) ==
    \E data \in D :
        Call("recipes", "create", NoneNum, [id |-> data.id], RecipeCreate(Store, data))

RecipesUpdateFrom(item_id, D) ==
    \E data \in D :
        Call("recipes", "update", item_id, [id |-> data.id],
             RecipeUpdate(Store, item_id, data))

RecipesCreate == RecipesCreateFrom(RecipeData(NoneNum))

RecipesUpdate ==
    \E item_id \in 1..MaxRecipe : RecipesUpdateFrom(item_id, RecipeData(item_id))

RecipesCreateLines == RecipesCreateFrom(LinesOnlyData(NoneNum))

RecipesUpdateLines ==
    \E item_id \in 1..MaxRecipe : RecipesUpdateFrom(item_id, LinesOnlyData(item_id))

RecipesCreateTags == RecipesCreateFrom(TagsOnlyData(NoneNum))

RecipesUpdateTags ==
    \E item_id \in 1..MaxRecipe : RecipesUpdateFrom(item_id, TagsOnlyData(item_id))

RecipesCreateUnits == RecipesCreateFrom(UnitLinesData(NoneNum))

RecipesUpdateUnits ==
    \E item_id \in 1..MaxRecipe : RecipesUpdateFrom(item_id, UnitLinesData(item_id))

RecipesCreateOrUpdate ==
    \E item_id \in OptId(MaxRecipe) :
        \E data \in RecipeData(item_id) :
            Call("recipes", "create_or_update", NoneNum, [id |-> data.id],
                 RecipeCreateOrUpdate(Store, data))

RecipesDeleteSingle ==
    \E item_id \in 1..MaxRecipe :
        Call("recipes", "delete_single", item_id, NoData, RecipeDelete(Store, item_id))

\* ---- get_single of every controller
UnitsGetSingle ==
    \E item_id \in 1..MaxUnit :
        Call("units", "get_single", item_id, NoData, GetSingle(Store, "unit", item_id))

TagsGetSingle ==
    \E item_id \in 1..MaxTag :
        Call("tags", "get_single", item_id, NoData, GetSingle(Store, "tag", item_id))

IngredientsGetSingle ==
    \E item_id \in 1..MaxIngredient :
        Call("ingredients", "get_single", item_id, NoData,
             GetSingle(Store, "ingredient", item_id))

CategoriesGetSingle ==
    \E item_id \in 1..MaxCategory :
        Call("categories", "get_single", item_id, NoData,
             GetSingle(Store, "category", item_id))

RecipesGetSingle ==
    \E item_id \in 1..MaxRecipe :
        Call("recipes", "get_single", item_id, NoData, GetSingle(Store, "recipe", item_id))

\* -------------------------------------------------------- specifications
\* Recipe writes with ingredient-items and tags.
Next == RecipesCreate \/ RecipesUpdate

Spec == Init /\ [][Next]_vars

\* Recipe writes and deletes with ingredient-items, and ingredient deletes.
NextLines ==
    \/ RecipesCreateLines \/ RecipesUpdateLines \/ RecipesDeleteSingle
    \/ IngredientsDeleteSingle

SpecLines == Init /\ [][NextLines]_vars

\* Recipe writes with tags, and categories over the same tags.
NextTags ==
    \/ RecipesCreateTags \/ RecipesUpdateTags \/ CategoriesCreate

SpecTags == Init /\ [][NextTags]_vars

\* The unit controller, and recipe writes that resolve units.
NextUnits ==
    \/ UnitsCreate \/ UnitsUpdate \/ UnitsCreateOrUpdate \/ UnitsDeleteSingle
    \/ RecipesCreateUnits \/ RecipesUpdateUnits

SpecUnits == Init /\ [][NextUnits]_vars

\* The controllers with the default merge routine.
NextMerge ==
    \/ UnitsCreate \/ UnitsUpdate
    \/ TagsCreate \/ TagsUpdate
    \/ IngredientsCreate \/ IngredientsUpdate

SpecMerge == Init /\ [][NextMerge]_vars

\* Categories and the tags they refer to.
NextCategories ==
    \/ TagsCreate \/ TagsDeleteSingle
    \/ CategoriesCreate \/ CategoriesUpdate \/ CategoriesCreateOrUpdate
    \/ CategoriesDeleteSingle

SpecCategories == Init /\ [][NextCategories]_vars

\* Every controller's delete, and the disabled recipe upsert.
NextDelete ==
    \/ CategoriesCreate \/ RecipesCreateLines
    \/ UnitsDeleteSingle \/ TagsDeleteSingle \/ IngredientsDeleteSingle
    \/ CategoriesDeleteSingle \/ RecipesDeleteSingle
    \/ RecipesCreateOrUpdate

SpecDelete == Init /\ [][NextDelete]_vars

RecipesCreatePartial == RecipesCreateFrom(PartialData(NoneNum))

RecipesUpdatePartial ==
    \E item_id \in 1..MaxRecipe : RecipesUpdateFrom(item_id, PartialData(item_id))

\* Recipe writes whose payloads fail at the first line, at the second, or
\* at the tags.
NextPartial == RecipesCreatePartial \/ RecipesUpdatePartial

SpecPartial == Init /\ [][NextPartial]_vars

\* ---- UnitsController.create_or_update in two sessions.  Lines 131-140 of
\* a call without an id: the lookup by name, on the committed store.
UnitsUpsertLookup ==
    \E p \in Sessions :
        \E data \in {d \in UnitData : d.id = NoneNum /\ d.name # NoneStr} :
            /\ pending[p].pc = "idle"
            /\ pending' = [pending EXCEPT ![p] = [pc |-> "looked", data |-> data,
                                                  item |-> UnitLookup(Store, data)]]
            /\ UNCHANGED <<store_vars, last>>

\* Lines 142-151 of that call: the attributes are set on the unit that the
\* lookup gave, or on a new one, and the session commits.  The UPDATE of a
\* row that is gone by now fails.
UnitsUpsertCommit ==
    \E p \in Sessions :
        /\ pending[p].pc = "looked"
        /\ \E r \in {IF pending[p].item # NoneNum /\ ~Exists(Store, "unit", pending[p].item)
                     THEN Result(Store, "StaleDataError", NoRet)
                     ELSE UnitWrite(Store, pending[p].data, pending[p].item)} :
               /\ InBounds(r.s)
               /\ Commit(r.s)
               /\ last' = [NoCall EXCEPT
                              !.ctrl = "units", !.op = "create_or_update",
                              !.data = [name |-> pending[p].data.name,
                                        item |-> pending[p].item,
                                        found |-> FirstByName(Store, pending[p].data.name)],
                              !.out = r.out, !.ret = r.ret, !.row = r.row]
        /\ pending' = [pending EXCEPT ![p] = Idle]

\* Unit upserts of two sessions, each a lookup and a commit, in any order.
NextRace == UnitsUpsertLookup \/ UnitsUpsertCommit

SpecRace == Init /\ [][NextRace]_vars

\* create_or_update of the controllers that accept it, with and without an
\* id in the payload, and the deletes that make an id stale.
NextUpsert ==
    \/ UnitsCreateOrUpdate \/ TagsCreateOrUpdate \/ IngredientsCreateOrUpdate
    \/ UnitsDeleteSingle \/ TagsDeleteSingle

SpecUpsert == Init /\ [][NextUpsert]_vars

\* get_dictionary(depth) of a stored object, for every depth up to MaxDepth.
ModelGetDictionary ==
    \E kind \in Kinds \ {"item"} :
        \E id \in DOMAIN Store[TableOf(kind)] :
            \E depth \in 0..MaxDepth :
                Call("models", "get_dictionary", id, [kind |-> kind, depth |-> depth],
                     Result(Store, "ok", GetDictionary(Store, kind, id, depth, 0)))

\* Serialization of the objects that recipe and category creates store.
NextSerialize == RecipesCreate \/ CategoriesCreate \/ ModelGetDictionary

SpecSerialize == Init /\ [][NextSerialize]_vars

\* Every controller's get_single and update, over stores that recipe writes
\* and category creates fill.
NextRead ==
    \/ RecipesCreateTags \/ CategoriesCreate
    \/ UnitsGetSingle \/ TagsGetSingle \/ IngredientsGetSingle
    \/ CategoriesGetSingle \/ RecipesGetSingle
    \/ UnitsUpdate \/ TagsUpdate \/ IngredientsUpdate
    \/ CategoriesUpdate \/ RecipesUpdateTags

SpecRead == Init /\ [][NextRead]_vars

\* ----------------------------------------------------------- properties
\* C1 (SpecUnits): from any store, submitting one id-less unit payload to
\* UnitsController.create_or_update twice in a row succeeds both times,
\* leaves exactly one unit of that name, and both calls return the same id
\* (the returned schema carries no id: Unit.__items__ has none, so both are
\* None) and write the same row.
UnitUpsertIdempotent ==
    \A data \in {d \in UnitData : d.id = NoneNum /\ d.name # NoneStr} :
        LET first == UnitCreateOrUpdate(Store, data)
            second == UnitCreateOrUpdate(first.s, data)
        IN  /\ first.out = "ok"
            /\ second.out = "ok"
            /\ Cardinality({i \in DOMAIN second.s.units :
                               second.s.units[i].name = data.name}) = 1
            /\ first.ret.id = second.ret.id
            /\ first.row = second.row

\* An id-less upsert has created or reused a unit beside another unit, and
\* the same payload again reuses that row.
UnitUpsertTwice ==
    /\ last.ctrl = "units"
    /\ last.op = "create_or_update"
    /\ last.out = "ok"
    /\ last.data.id = NoneNum
    /\ Cardinality(DOMAIN units) = 2
    /\ LET second == UnitCreateOrUpdate(Store, last.data)
       IN  /\ second.out = "ok"
           /\ second.row = last.row
           /\ DOMAIN second.s.units = DOMAIN units

\* C2 (SpecUnits): no two unit rows of the store have the same name.
UnitNamesUnique ==
    \A i, j \in DOMAIN units : units[i].name = units[j].name => i = j

\* A create of a unit whose name is taken has been rejected.
DuplicateUnitRejected ==
    /\ last.ctrl = "units"
    /\ last.op = "create"
    /\ last.out = "IntegrityError"
    /\ \E i \in DOMAIN units : units[i].name = last.data.name

\* C3 (SpecLines): deleting an ingredient that an ingredient-item attached to
\* a recipe refers to fails with a conflict, changes nothing, and the error
\* names the title of every such recipe; deleting any other existing
\* ingredient succeeds and removes it.
IngredientGuard ==
    \A id \in DOMAIN ingredients :
        LET r == IngredientDelete(Store, id)
            using == {rec \in DOMAIN recipes :
                         \E i \in RecipeIngredientSet(Store, rec) :
                             items[i].ingredient_id = id}
        IN  IF using # {}
            THEN /\ r.out = "Conflict"
                 /\ r.s = Store
                 /\ \A rec \in using :
                        \E k \in 1..Len(r.titles) : r.titles[k] = recipes[rec].title
            ELSE /\ r.out = "ok"
                 /\ id \notin DOMAIN r.s.ingredients

\* The delete of an ingredient used by two recipes of different titles has
\* been refused, and both titles are in the message.
IngredientDeleteRefused ==
    /\ last.ctrl = "ingredients"
    /\ last.op = "delete_single"
    /\ last.out = "Conflict"
    /\ last.id \in DOMAIN ingredients
    /\ Titles \subseteq SeqRange(last.titles)

\* C4 (Spec): after a successful RecipesController.update the recipe's
\* ingredient-items are one per payload line, in payload order, its tags are
\* one per payload tag, and no ingredient-item and no tag that was attached
\* before and is absent from the payload is still attached.
RecipeAggregateReplaced ==
    \A id \in DOMAIN recipes :
        \A data \in RecipeData(id) :
            LET r == RecipeUpdate(Store, id, data)
                now == RecipeIngredients(r.s, r.row)
                now_tags == RecipeTags(r.s, r.row)
                given == {data.tags[k].id : k \in 1..Len(data.tags)} \ {NoneNum}
            IN  r.out = "ok" =>
                    /\ Len(now) = Len(data.ingredients)
                    /\ \A k \in 1..Len(now) :
                           LET line == data.ingredients[k]
                               item == r.s.items[now[k]]
                           IN  /\ item.amount = line.amount
                               /\ line.ingredient.id # NoneNum =>
                                      item.ingredient_id = line.ingredient.id
                               /\ line.ingredient.id = NoneNum =>
                                      /\ item.ingredient_id \in DOMAIN r.s.ingredients
                                      /\ r.s.ingredients[item.ingredient_id].name =
                                             line.ingredient.name
                    /\ Cardinality(now_tags) = Len(data.tags)
                    /\ given \subseteq now_tags
                    /\ (now_tags \ given) \cap DOMAIN tags = {}
                    /\ RecipeIngredientSet(Store, id) \cap SeqRange(now) = {}
                    /\ (RecipeTags(Store, id) \ given) \cap now_tags = {}

\* An update has replaced an ingredient-item and a tag of a recipe by others.
RecipeReplaced ==
    /\ last.ctrl = "recipes"
    /\ last.op = "update"
    /\ last.out = "ok"
    /\ last.detached.items # {}
    /\ last.detached.tags # {}
    /\ RecipeIngredientSet(Store, last.row) # {}
    /\ RecipeTags(Store, last.row) # {}

\* C5 (SpecLines): every ingredient-item of the store is attached to exactly
\* one recipe.
ItemsOwned ==
    \A i \in DOMAIN items :
        Cardinality({rec \in DOMAIN recipes : <<rec, i>> \in rec_items}) = 1

\* C6 (SpecTags): a tag that a successful recipe update detaches still
\* exists, with the same name, and its links to the other recipes and to the
\* categories are the same.
DetachedTagsSurvive ==
    \A id \in DOMAIN recipes :
        \A data \in TagsOnlyData(id) :
            LET r == RecipeUpdate(Store, id, data)
            IN  r.out = "ok" =>
                    \A g \in RecipeTags(Store, id) \ RecipeTags(r.s, r.row) :
                        /\ g \in DOMAIN r.s.tags
                        /\ r.s.tags[g] = tags[g]
                        /\ {p \in r.s.rec_tags : p[2] = g /\ p[1] # id} =
                               {p \in rec_tags : p[2] = g /\ p[1] # id}
                        /\ {p \in r.s.cat_tags : p[2] = g} = {p \in cat_tags : p[2] = g}

\* An update has detached a tag that another recipe and a category share.
SharedTagDetached ==
    /\ last.ctrl = "recipes"
    /\ last.op = "update"
    /\ last.out = "ok"
    /\ \E g \in last.detached.tags :
           /\ g \in DOMAIN tags
           /\ \E rec \in DOMAIN recipes : rec # last.row /\ <<rec, g>> \in rec_tags
           /\ \E c \in DOMAIN categories : <<c, g>> \in cat_tags

\* C7 (SpecDelete): RecipesController.create_or_update fails for every
\* payload, with or without an id, resolving or not, and leaves the store
\* as it was.
RecipeUpsertDisabled ==
    \A id \in OptId(MaxRecipe) :
        \A data \in RecipeData(id) :
            LET r == RecipeCreateOrUpdate(Store, data)
            IN  r.out # "ok" /\ r.s = Store

\* The upsert of a payload whose id resolves to a recipe has failed.
RecipeUpsertRefused ==
    /\ last.ctrl = "recipes"
    /\ last.op = "create_or_update"
    /\ last.out = "ValueError"
    /\ last.data.id \in DOMAIN recipes

\* C8 (SpecCategories): a category create, or an update of an existing
\* category, whose payload has a tag id that resolves to no tag fails with
\* "Tag id={id} not found" for an offending id, and no category row and no
\* category-tag link differs afterwards.
CategoryTagsValidated ==
    \A data \in CategoryData(OptId(MaxCategory)) :
        LET missing == {data.tags[k].id : k \in 1..Len(data.tags)} \ DOMAIN tags
            refused(r) == /\ r.out = "BadTag"
                          /\ r.tag_id \in missing
                          /\ r.s.categories = categories
                          /\ r.s.cat_tags = cat_tags
                          /\ r.s = Store
        IN  missing # {} =>
                /\ data.id = NoneNum => refused(CategoryCreate(Store, data))
                /\ \A id \in DOMAIN categories :
                       data.id \in {NoneNum, id} => refused(CategoryUpdate(Store, id, data))

\* An update that would have renamed an existing category has been refused
\* for a tag id that resolves to nothing.
CategoryUpdateRefused ==
    /\ last.ctrl = "categories"
    /\ last.op = "update"
    /\ last.out = "BadTag"
    /\ last.id \in DOMAIN categories
    /\ last.tag_id \notin DOMAIN tags
    /\ last.data.name \notin {NoneStr, categories[last.id].name}

\* C9 (SpecMerge): a successful update of a unit, a tag or an ingredient
\* sets each attribute the payload gives to the payload's value, keeps each
\* attribute the payload leaves null, and changes no other row; an update
\* that fails changes nothing.
PartialUpdateMerges ==
    \A kind \in {"unit", "tag", "ingredient"} :
        \A id \in DOMAIN Store[TableOf(kind)] :
            \A data \in UpdateData(kind, id) :
                LET r == UpdatePlain(Store, kind, id, data)
                    old == Store[TableOf(kind)]
                    new == r.s[TableOf(kind)]
                    key == IF data.id # NoneNum THEN data.id ELSE id
                IN  IF r.out = "ok"
                    THEN /\ DOMAIN new = (DOMAIN old \ {id}) \cup {key}
                         /\ \A a \in Columns(kind) :
                                new[key][a] = IF data[a] # NoneOf(a) THEN data[a]
                                              ELSE old[id][a]
                         /\ \A j \in DOMAIN old \ {id} : new[j] = old[j]
                         /\ [r.s EXCEPT ![TableOf(kind)] = old] = Store
                    ELSE r.s = Store

\* An update with a null name and grams 5 has kept the unit's name and set
\* its grams.
UnitGramsOnlyUpdated ==
    /\ last.ctrl = "units"
    /\ last.op = "update"
    /\ last.out = "ok"
    /\ last.data.name = NoneStr
    /\ last.data.grams = 5
    /\ last.row \in DOMAIN units
    /\ units[last.row].name \in UnitNames
    /\ units[last.row].grams = 5

\* C10 (SpecDelete): a delete_single call of any controller, the
\* IngredientsController included, for an id that is not in the store ends
\* with NotFound.  A failed delete leaves the store as it was, so the id is
\* missing after the call exactly when it was missing before.
DeleteMissingNotFound ==
    /\ last.op = "delete_single"
    /\ last.out # "ok"
    /\ last.id \notin DOMAIN Store[last.ctrl]
    => last.out = "NotFound"

\* C11 (SpecRead): get_single and update of every controller, for an id that
\* is not in the store, end with NotFound and leave the whole store as it
\* was: no entity is created, and a recipe update creates or modifies no
\* unit, ingredient or tag.
MissingIdNotFound ==
    /\ \A kind \in {"unit", "tag", "ingredient"} :
           \A id \in (1..MaxKey(kind)) \ DOMAIN Store[TableOf(kind)] :
               /\ GetSingle(Store, kind, id).out = "NotFound"
               /\ GetSingle(Store, kind, id).s = Store
               /\ \A data \in UpdateData(kind, id) :
                      /\ UpdatePlain(Store, kind, id, data).out = "NotFound"
                      /\ UpdatePlain(Store, kind, id, data).s = Store
    /\ \A id \in (1..MaxCategory) \ DOMAIN categories :
           /\ GetSingle(Store, "category", id).out = "NotFound"
           /\ GetSingle(Store, "category", id).s = Store
           /\ \A data \in CategoryData({NoneNum, id}) :
                  /\ CategoryUpdate(Store, id, data).out = "NotFound"
                  /\ CategoryUpdate(Store, id, data).s = Store
    /\ \A id \in (1..MaxRecipe) \ DOMAIN recipes :
           /\ GetSingle(Store, "recipe", id).out = "NotFound"
           /\ GetSingle(Store, "recipe", id).s = Store
           /\ \A data \in RecipeData(id) \cup UnitLinesData(id) \cup TagsOnlyData(id) :
                  /\ RecipeUpdate(Store, id, data).out = "NotFound"
                  /\ RecipeUpdate(Store, id, data).s = Store

\* The update of a recipe id that is not in the store, beside a recipe that
\* is, has ended with NotFound.
MissingRecipeUpdateRefused ==
    /\ last.ctrl = "recipes"
    /\ last.op = "update"
    /\ last.out = "NotFound"
    /\ last.id \notin DOMAIN recipes
    /\ recipes # EmptyTable

\* C12 (SpecMerge): no controller operation changes the id of an existing
\* entity: after a successful update(item_id, data), whatever id the payload
\* carries, the entity addressed is still in the store under item_id, and
\* that is the row the call wrote.
IdentityKept ==
    /\ last.op = "update"
    /\ last.out = "ok"
    => /\ last.id \in DOMAIN Store[last.ctrl]
       /\ last.row = last.id

\* C13 (SpecSerialize): get_dictionary(depth) of a stored object gives, for
\* each of its collection attributes, a list with one entry per element in
\* the order of the collection; when depth <= 1 every entry is the display
\* string of its element and none is a mapping, and when depth > 1 every
\* entry is the mapping that get_dictionary gives for the element with the
\* depth that _dictify(element, depth - 1) passes on.
ListTruncation ==
    \A kind \in {"recipe", "category"} :
        \A id \in DOMAIN Store[TableOf(kind)] :
            \A depth \in 0..MaxDepth :
                \A a \in {"ingredients", "tags"} \cap Items(kind) :
                    LET x == Attr(Store, kind, id, a)
                        r == GetDictionary(Store, kind, id, depth, 0).val.m[a]
                    IN  /\ r.t = "list"
                        /\ Len(r.l) = Len(x.ids)
                        /\ \A k \in 1..Len(x.ids) :
                               IF depth <= 1
                               THEN /\ r.l[k].t = "str"
                                    /\ r.l[k] = Str(Store, x.kind, x.ids[k], 1).val
                               ELSE /\ r.l[k].t = "map"
                                    /\ r.l[k] = GetDictionary(Store, x.kind, x.ids[k],
                                                              depth - 2, 1).val

\* get_dictionary(depth=0) of a recipe with two ingredient-items has given
\* two display strings for them.
TwoItemsTruncated ==
    /\ last.op = "get_dictionary"
    /\ last.data.kind = "recipe"
    /\ last.data.depth = 0
    /\ Len(RecipeIngredients(Store, last.id)) = 2
    /\ Len(last.ret.val.m.ingredients.l) = 2
    /\ \A k \in 1..2 : last.ret.val.m.ingredients.l[k].t = "str"

\* C14 (SpecSerialize): get_dictionary(depth) of a stored object runs
\* get_dictionary only on objects at most depth levels below it, so that a
\* display string, which is what an object or a collection element becomes
\* once the depth is used up, is made without serializing any object.
SerializationDepthBounded ==
    \A kind \in Kinds \ {"item"} :
        \A id \in DOMAIN Store[TableOf(kind)] :
            \A depth \in 0..MaxDepth :
                \A v \in GetDictionary(Store, kind, id, depth, 0).visits : v[3] <= depth

\* C15 (SpecUpsert): create_or_update with a payload whose id is not None
\* and is the id of no stored object succeeds: it stores one more object,
\* filled from the payload, and returns its serialization.
StaleIdCreates ==
    \A kind \in {"unit", "tag", "ingredient"} :
        \A data \in (CASE kind = "unit" -> UnitData
                       [] kind = "tag" -> TagData
                       [] kind = "ingredient" -> IngredientData) :
            data.id # NoneNum /\ ~Exists(Store, kind, data.id) =>
                LET r == IF kind = "unit" THEN UnitCreateOrUpdate(Store, data)
                         ELSE CreateOrUpdatePlain(Store, kind, data)
                IN  /\ r.out = "ok"
                    /\ r.row \in DOMAIN r.s[TableOf(kind)] \ DOMAIN Store[TableOf(kind)]
                    /\ DOMAIN r.s[TableOf(kind)] = DOMAIN Store[TableOf(kind)] \cup {r.row}

\* C16, as stated (SpecRace): when a session commits a unit upsert whose
\* lookup by name found nothing, while another session has committed a unit
\* of that name since, the store holds two units of that name afterwards.
RaceMakesDuplicates ==
    /\ last.op = "create_or_update"
    /\ last.data.item = NoneNum
    /\ last.data.found # NoneNum
    => Cardinality({i \in DOMAIN units : units[i].name = last.data.name}) = 2

\* C16, amended (SpecRace): no lock protects the lookup and the write of a
\* unit upsert, so two sessions can both find no unit of a name before
\* either commits; the commit of the later one then fails with
\* IntegrityError, one unit has the name, and in every state the units have
\* pairwise different names.
RaceLoserRefused ==
    /\ \A i, j \in DOMAIN units : units[i].name = units[j].name => i = j
    /\ /\ last.op = "create_or_update"
       /\ last.data.item = NoneNum
       /\ last.data.found # NoneNum
       => /\ last.out = "IntegrityError"
          /\ Cardinality({i \in DOMAIN units : units[i].name = last.data.name}) = 1

\* Both sessions looked a name up and found nothing, one has committed its
\* unit and the other's commit was refused.
RaceLost ==
    /\ last.op = "create_or_update"
    /\ last.data.item = NoneNum
    /\ last.data.found # NoneNum
    /\ last.out = "IntegrityError"
    /\ \A p \in Sessions : pending[p].pc = "idle"

\* C17 (SpecPartial): when RecipesController.create or update fails after
\* the unit upsert of the first ingredient-item of its payload, the store
\* holds a unit of that item's unit name with the grams given (no other
\* item of the payload names that unit), and, when the item's ingredient is
\* new, one more ingredient, of the name given unless a later item of the
\* payload carries its id, although no recipe and no ingredient-item was
\* added.
UpsertsPersistOnFailure ==
    \A id \in {NoneNum} \cup DOMAIN recipes :
        \A data \in {d \in PartialData(id) :
                         /\ d.ingredients # <<>>
                         /\ \A k \in 2..Len(d.ingredients) :
                                d.ingredients[k].unit.name # d.ingredients[1].unit.name} :
            LET r == IF id = NoneNum THEN RecipeCreate(Store, data)
                     ELSE RecipeUpdate(Store, id, data)
                first == data.ingredients[1]
            IN  r.out # "ok" =>
                    /\ \E u \in DOMAIN r.s.units :
                           /\ r.s.units[u].name = first.unit.name
                           /\ r.s.units[u].grams = first.unit.grams
                    /\ first.ingredient.id = NoneNum =>
                           \E g \in DOMAIN r.s.ingredients \ DOMAIN ingredients :
                               (\A k \in 2..Len(data.ingredients) :
                                    data.ingredients[k].ingredient.id # g) =>
                                   r.s.ingredients[g].name = first.ingredient.name
                    /\ DOMAIN r.s.recipes = DOMAIN recipes
                    /\ DOMAIN r.s.items = DOMAIN items

\* A recipe write has failed at its second ingredient-item, no recipe was
\* ever stored, and the units of both items and the ingredient of the first
\* are in the store.
SecondLineFailed ==
    /\ last.ctrl = "recipes"
    /\ last.op = "create"
    /\ last.out = "AttributeError"
    /\ recipes = EmptyTable
    /\ {units[u].name : u \in DOMAIN units} = {"g", "ml"}
    /\ DOMAIN ingredients = {1}

\* C18 (SpecLines): when RecipesController.update of a stored recipe fails,
\* the stored recipe is as before the call: its scalar attributes, its
\* ingredient-items and its tags.
FailedUpdateLeavesRecipe ==
    \A id \in DOMAIN recipes :
        \A data \in LinesOnlyData(id) :
            LET r == RecipeUpdate(Store, id, data)
            IN  r.out # "ok" =>
                    /\ id \in DOMAIN r.s.recipes
                    /\ r.s.recipes[id] = recipes[id]
                    /\ RecipeIngredients(r.s, id) = RecipeIngredients(Store, id)
                    /\ RecipeTags(r.s, id) = RecipeTags(Store, id)

\* C19 (SpecUnits): after a successful RecipesController.create or update,
\* the k-th ingredient-item of the recipe has the id of a stored unit that
\* has the unit name of the k-th item of the payload, and the id of a stored
\* ingredient.
LineReferencesResolved ==
    \A id \in {NoneNum} \cup DOMAIN recipes :
        \A data \in UnitLinesData(id) :
            LET r == IF id = NoneNum THEN RecipeCreate(Store, data)
                     ELSE RecipeUpdate(Store, id, data)
            IN  r.out = "ok" =>
                    /\ Len(RecipeIngredients(r.s, r.row)) = Len(data.ingredients)
                    /\ \A k \in 1..Len(data.ingredients) :
                           LET item == r.s.items[RecipeIngredients(r.s, r.row)[k]]
                           IN  /\ item.unit_id \in DOMAIN r.s.units
                               /\ r.s.units[item.unit_id].name = data.ingredients[k].unit.name
                               /\ item.ingredient_id \in DOMAIN r.s.ingredients

====
